---- MODULE Spec2Model ----
(***************************************************************************)
(* Model of src/app.py: the SVG -> EPS / JPG batch converter.              *)
(*                                                                         *)
(*   Spec          the window, its worker threads and the queued signals   *)
(*   SpecPad       the padding step of convert_to_eps, one write per step  *)
(*   SpecScale     the scale factor of convert_to_jpg                      *)
(*   SpecProgress  the progress value of ConversionThread.run              *)
(***************************************************************************)
EXTENDS Integers, Sequences, FiniteSets

VARIABLES
    \* MainWindow and its worker threads
    svg_files,        \* MainWindow.svg_files, the list object the threads share
    select_enabled,   \* select_button.isEnabled()
    convert_enabled,  \* convert_eps_button.isEnabled()
    progress_bar,     \* progress_bar.value()
    status_label,     \* status_label.text()
    prompt,           \* the modal "Convert to JPG" question is open
    threads,          \* every ConversionThread created so far, in order
    queue,            \* signals emitted by the threads, not yet delivered
    \* the padding step of convert_to_eps on one file
    pad_pc, fsize, original_size, target_size,
    eps_file,         \* missing | produced (by the editor) | created (by open)
    \* the scale computation of convert_to_jpg on one file
    jpg_pc, width, height, scale_factor,
    \* the progress expression of ConversionThread.run
    prog_pc, prog_i, prog_total, prog_value

guiVars   == <<svg_files, select_enabled, convert_enabled, progress_bar,
               status_label, prompt, threads, queue>>
padVars   == <<pad_pc, fsize, original_size, target_size, eps_file>>
scaleVars == <<jpg_pc, width, height, scale_factor>>
progVars  == <<prog_pc, prog_i, prog_total, prog_value>>
vars      == <<guiVars, padVars, scaleVars, progVars>>

(***************************************************************************)
(* Bounds of the model.                                                    *)
(***************************************************************************)
MaxFiles   == 4     \* longest file list
MaxBatches == 2    \* most worker threads created in one run
MaxDelta   == 1     \* sizes tried on each side of a boundary size
MaxDim     == 6     \* small declared dimensions 0..MaxDim
MaxTotal   == 100   \* largest batch size of SpecProgress

FileNames == {"a", "b"}

Max2(a, b) == IF a >= b THEN a ELSE b
Min2(a, b) == IF a <= b THEN a ELSE b

(***************************************************************************)
(* IEEE-754 binary64 arithmetic on the values the program computes with    *)
(* true division.  A significand is a sequence of bits, least significant  *)
(* first, whose last bit is 1; a float is [man, exp] with value            *)
(* man * 2^exp.  Rounding is round-half-to-even, as Python's float         *)
(* division and multiplication are.                                        *)
(***************************************************************************)
Precision == 53

Zeros(k) == [x \in 1..k |-> 0]

RECURSIVE BitsValue(_)
BitsValue(b) == IF b = <<>> THEN 0 ELSE b[1] + 2 * BitsValue(Tail(b))

RECURSIVE NatBits(_)
NatBits(k) == IF k = 0 THEN <<>> ELSE <<k % 2>> \o NatBits(k \div 2)

RECURSIVE AddBits(_, _, _)
AddBits(a, b, c) ==
    IF a = <<>> /\ b = <<>>
    THEN (IF c = 1 THEN <<1>> ELSE <<>>)
    ELSE LET x == IF a = <<>> THEN 0 ELSE a[1]
             y == IF b = <<>> THEN 0 ELSE b[1]
             s == x + y + c
         IN  <<s % 2>> \o AddBits(IF a = <<>> THEN a ELSE Tail(a),
                                  IF b = <<>> THEN b ELSE Tail(b), s \div 2)

RECURSIVE MulBits(_, _)
MulBits(a, c) ==
    IF c = 0 THEN <<>>
    ELSE LET rest == <<0>> \o MulBits(a, c \div 2)
         IN  IF c % 2 = 1 THEN AddBits(a, rest, 0) ELSE rest

\* b rounded to p significant bits: [man, shift] with b ~ man * 2^shift.
RoundBits(b, p) ==
    IF Len(b) <= p
    THEN [man |-> Zeros(p - Len(b)) \o b, shift |-> Len(b) - p]
    ELSE LET t      == Len(b) - p
             kept   == SubSeq(b, t + 1, Len(b))
             half   == b[t] = 1
             sticky == \E k \in 1..(t - 1) : b[k] = 1
             up     == half /\ (sticky \/ kept[1] = 1)
             inc    == IF up THEN AddBits(kept, <<1>>, 0) ELSE kept
         IN  IF Len(inc) > p
             THEN [man |-> Tail(inc), shift |-> t + 1]
             ELSE [man |-> inc, shift |-> t]

\* Long division: quotient bits of (acc + rem/n) until Precision + 1 are known.
RECURSIVE LongDiv(_, _, _, _)
LongDiv(acc, rem, n, exp) ==
    IF Len(acc) >= Precision + 1
    THEN [acc |-> acc, rem |-> rem, exp |-> exp]
    ELSE LET bit == IF 2 * rem >= n THEN 1 ELSE 0
         IN  LongDiv(IF acc = <<>> /\ bit = 0 THEN <<>> ELSE <<bit>> \o acc,
                     2 * rem - n * bit, n, exp - 1)

\* float(i) / float(n) for integers i >= 1, n >= 1
FloatDiv(i, n) ==
    LET d == LongDiv(NatBits(i \div n), i % n, n, 0)
        r == RoundBits(<<IF d.rem # 0 THEN 1 ELSE 0>> \o d.acc, Precision)
    IN  [man |-> r.man, exp |-> d.exp - 1 + r.shift]

\* x * c for a float x and an integer c >= 1
FloatMulNat(x, c) ==
    LET r == RoundBits(MulBits(x.man, c), Precision)
    IN  [man |-> r.man, exp |-> x.exp + r.shift]

\* int(x) for a float 0 <= x < 2^31: truncation
FloatTrunc(x) ==
    IF -x.exp >= Len(x.man) THEN 0
    ELSE BitsValue(SubSeq(x.man, 1 - x.exp, Len(x.man)))

\* Mutant of Progress: the product rounded to the nearest integer.
ProgressRounded(i, total) == (200 * i + total) \div (2 * total)

\* int(i / len(self.svg_files) * 100)
Progress(i, total) == FloatTrunc(FloatMulNat(FloatDiv(i, total), 100))

\* math.ceil(x) for a float 0 <= x < 2^31
FloatCeil(x) ==
    LET k == Min2(Max2(-x.exp, 0), Len(x.man))
    IN  FloatTrunc(x) + (IF \E j \in 1..k : x.man[j] = 1 THEN 1 ELSE 0)

\* x < y for positive floats with full-width significands
RECURSIVE BitsLess(_, _)
BitsLess(a, b) ==
    IF a = <<>> THEN FALSE
    ELSE IF a[Len(a)] # b[Len(b)] THEN a[Len(a)] < b[Len(b)]
    ELSE BitsLess(SubSeq(a, 1, Len(a) - 1), SubSeq(b, 1, Len(b) - 1))

FloatLess(x, y) == x.exp < y.exp \/ (x.exp = y.exp /\ BitsLess(x.man, y.man))

\* max(x, y) of two floats, as Python's max: y only if it is greater
FloatMax(x, y) == IF FloatLess(x, y) THEN y ELSE x

(***************************************************************************)
(* ConversionThread and the conversion functions as the thread sees them.  *)
(***************************************************************************)
\* What the external tools do to one call; the program does not choose it.
EpsOutcomes == {"ok", "no_output_file", "subprocess_raises"}
\* The outcomes in which an exception is raised inside the call.
Raising == {"subprocess_raises", "bad_dimensions", "render_error", "encode_error"}
JpgOutcomes == {"ok", "bad_dimensions", "render_error", "encode_error"}

\* Mutant of convert_to_eps: the failure is caught and the call returns.
convert_to_eps_caught(outcome) == "returned"

\* convert_to_eps: nothing catches what subprocess.run raises.  The exception
\* leaves run() as well; whether only the thread or the whole process ends
\* then, the thread takes no further step.
\* When the editor returns without an output file, open(eps_file, 'ab')
\* creates it and the call returns as well.
convert_to_eps(outcome) ==
    IF outcome = "subprocess_raises" THEN "raised" ELSE "returned"

\* Mutant of convert_to_jpg: no try / except around the body.
convert_to_jpg_uncaught(outcome) ==
    IF outcome = "ok" THEN "returned" ELSE "raised"

\* convert_to_jpg: the body is inside try / except Exception.
convert_to_jpg(outcome) == "returned"

convert_function(fn, outcome) ==
    IF fn = "eps" THEN convert_to_eps(outcome) ELSE convert_to_jpg(outcome)

Outcomes(fn) == IF fn = "eps" THEN EpsOutcomes ELSE JpgOutcomes

ProgressSignal(t, v) == [kind |-> "progress", thread |-> t, value |-> v]
CompleteSignal(t)    == [kind |-> "complete", thread |-> t, value |-> 0]

\* ConversionThread(self.svg_files, fn) followed by start()
NewThread(fn) ==
    [fn        |-> fn,         \* convert_function
     n0        |-> Len(svg_files),  \* length of the list when it started
     raised_at |-> 0,          \* position whose call raised, 0 if none
     pc        |-> "running",  \* running | done | aborted
     i         |-> 0,          \* files the loop has gone through
     attempted |-> <<>>,       \* files convert_function was called on
     failed    |-> {},         \* positions whose call failed and returned
     emitted   |-> <<>>,       \* signals emitted, in order
     shown     |-> 0,          \* progress signals of it delivered
     handled   |-> FALSE]      \* its completion signal was delivered

\* Progress on the batch sizes of Spec, computed once.
ProgressOf == [n \in 1..MaxFiles |-> [k \in 1..n |-> Progress(k, n)]]

\* One iteration of the loop of run(): the call, then progress_update.emit.
ThreadIterate(t, outcome) ==
    LET th  == threads[t]
        k   == th.i + 1
        res == convert_function(th.fn, outcome)
        sig == ProgressSignal(t, ProgressOf[Len(svg_files)][k])
    IN  /\ th.pc = "running"
        /\ k <= Len(svg_files)
        /\ IF res = "raised"
           THEN /\ threads' = [threads EXCEPT ![t] =
                      [th EXCEPT !.pc = "aborted",
                                 !.raised_at = k,
                                 !.attempted = Append(@, svg_files[k])]]
                /\ UNCHANGED queue
           ELSE /\ threads' = [threads EXCEPT ![t] =
                      [th EXCEPT !.i = k,
                                 !.attempted = Append(@, svg_files[k]),
                                 !.failed = IF outcome \in Raising THEN @ \cup {k} ELSE @,
                                 !.emitted = Append(@, sig)]]
                /\ queue' = Append(queue, sig)
        /\ UNCHANGED <<svg_files, select_enabled, convert_enabled, progress_bar,
                       status_label, prompt>>

\* Mutant of ThreadComplete: completion is emitted whatever the loop has done.
ThreadCompleteEarly(t) ==
    /\ threads[t].pc = "running"
    /\ threads' = [threads EXCEPT ![t] =
           [@ EXCEPT !.pc = "done", !.emitted = Append(@, CompleteSignal(t))]]
    /\ queue' = Append(queue, CompleteSignal(t))
    /\ UNCHANGED <<svg_files, select_enabled, convert_enabled, progress_bar,
                   status_label, prompt>>

\* The loop of run() is exhausted: conversion_complete.emit, run() returns.
ThreadComplete(t) ==
    LET th == threads[t]
    IN  /\ th.pc = "running"
        /\ th.i >= Len(svg_files)
        /\ threads' = [threads EXCEPT ![t] =
               [th EXCEPT !.pc = "done",
                          !.emitted = Append(@, CompleteSignal(t))]]
        /\ queue' = Append(queue, CompleteSignal(t))
        /\ UNCHANGED <<svg_files, select_enabled, convert_enabled, progress_bar,
                       status_label, prompt>>

ThreadRun(t) ==
    \/ \E outcome \in Outcomes(threads[t].fn) : ThreadIterate(t, outcome)
    \/ ThreadComplete(t)

(***************************************************************************)
(* MainWindow.  A button is clicked only while it is enabled and no modal  *)
(* dialog is open; a handler runs to its end before the next event.        *)
(***************************************************************************)
RECURSIVE SeqsUpTo(_)
SeqsUpTo(n) ==
    IF n = 0 THEN {<<>>}
    ELSE LET shorter == SeqsUpTo(n - 1)
         IN  shorter \cup {Append(s, f) : s \in {x \in shorter : Len(x) = n - 1},
                                          f \in FileNames}

\* Mutant of select_files: the file dialog can be opened while the
\* question is shown.
select_files_during_prompt ==
    /\ select_enabled
    /\ \E files \in SeqsUpTo(MaxFiles - Len(svg_files)) :
          svg_files' = svg_files \o files
    /\ UNCHANGED <<select_enabled, convert_enabled, progress_bar, status_label,
                   prompt, threads, queue>>

select_files ==
    /\ select_enabled
    /\ ~prompt
    /\ \E files \in SeqsUpTo(MaxFiles - Len(svg_files)) :
          svg_files' = svg_files \o files
    /\ UNCHANGED <<select_enabled, convert_enabled, progress_bar, status_label,
                   prompt, threads, queue>>

\* Mutant of start_eps_conversion: the list is not tested for emptiness.
start_eps_conversion_unchecked ==
    /\ convert_enabled
    /\ ~prompt
    /\ Len(threads) < MaxBatches
    /\ threads' = Append(threads, NewThread("eps"))
    /\ select_enabled' = FALSE
    /\ convert_enabled' = FALSE
    /\ status_label' = "Converting to EPS..."
    /\ UNCHANGED <<svg_files, prompt, queue, progress_bar>>

\* Mutant of start_eps_conversion: the buttons are left enabled.
start_eps_conversion_buttons_on ==
    /\ convert_enabled
    /\ ~prompt
    /\ IF svg_files = <<>>
       THEN /\ status_label' = "No files selected"
            /\ UNCHANGED threads
       ELSE /\ Len(threads) < MaxBatches
            /\ threads' = Append(threads, NewThread("eps"))
            /\ status_label' = "Converting to EPS..."
    /\ UNCHANGED <<svg_files, prompt, queue, select_enabled, convert_enabled,
                   progress_bar>>

start_eps_conversion ==
    /\ convert_enabled
    /\ ~prompt
    /\ IF svg_files = <<>>
       THEN /\ status_label' = "No files selected"
            /\ UNCHANGED <<select_enabled, convert_enabled, progress_bar, threads>>
       ELSE /\ Len(threads) < MaxBatches
            /\ threads' = Append(threads, NewThread("eps"))
            /\ select_enabled' = FALSE
            /\ convert_enabled' = FALSE
            /\ status_label' = "Converting to EPS..."
            /\ UNCHANGED progress_bar
    /\ UNCHANGED <<svg_files, prompt, queue>>

update_progress(value) ==
    /\ progress_bar' = value
    /\ UNCHANGED <<select_enabled, convert_enabled, status_label, prompt>>

\* eps_conversion_finished up to QMessageBox.question, which blocks in a
\* nested event loop until the user answers.
eps_conversion_finished ==
    /\ select_enabled' = TRUE
    /\ convert_enabled' = TRUE
    /\ status_label' = "EPS conversion complete"
    /\ progress_bar' = 100
    /\ prompt' = TRUE

jpg_conversion_finished ==
    /\ select_enabled' = TRUE
    /\ convert_enabled' = TRUE
    /\ status_label' = "JPG conversion complete"
    /\ progress_bar' = 100
    /\ UNCHANGED prompt

\* The event loop delivers the oldest queued signal to the slot connected to it.
Deliver ==
    /\ queue # <<>>
    /\ LET sig == Head(queue)
           th  == threads[sig.thread]
       IN  /\ queue' = Tail(queue)
           /\ IF sig.kind = "progress"
              THEN /\ update_progress(sig.value)
                   /\ threads' = [threads EXCEPT ![sig.thread].shown = @ + 1]
              ELSE /\ threads' = [threads EXCEPT ![sig.thread].handled = TRUE]
                   /\ IF th.fn = "eps"
                      THEN eps_conversion_finished
                      ELSE jpg_conversion_finished
    /\ UNCHANGED svg_files

start_jpg_conversion ==
    /\ threads' = Append(threads, NewThread("jpg"))
    /\ select_enabled' = FALSE
    /\ convert_enabled' = FALSE
    /\ status_label' = "Converting to JPG..."
    /\ progress_bar' = 0

\* The rest of eps_conversion_finished: the user's answer to the question.
AnswerPrompt(reply) ==
    /\ prompt
    /\ prompt' = FALSE
    /\ IF reply = "Yes"
       THEN /\ Len(threads) < MaxBatches
            /\ start_jpg_conversion
       ELSE UNCHANGED <<select_enabled, convert_enabled, status_label,
                        progress_bar, threads>>
    /\ UNCHANGED <<svg_files, queue>>

PadIdle   ==
    /\ pad_pc = "idle" /\ fsize = 0 /\ original_size = 0 /\ target_size = 0
    /\ eps_file = "missing"
ScaleIdle == jpg_pc = "idle" /\ width = 0 /\ height = 0 /\ scale_factor = 0
ProgIdle  == prog_pc = "idle" /\ prog_i = 0 /\ prog_total = 0 /\ prog_value = 0

\* MainWindow.__init__
GuiInit ==
    /\ svg_files = <<>>
    /\ select_enabled = TRUE
    /\ convert_enabled = TRUE
    /\ progress_bar = -1          \* a new QProgressBar has no value yet
    /\ status_label = "Ready"
    /\ prompt = FALSE
    /\ threads = <<>>
    /\ queue = <<>>

Init == GuiInit /\ PadIdle /\ ScaleIdle /\ ProgIdle

Next ==
    \/ select_files /\ UNCHANGED <<padVars, scaleVars, progVars>>
    \/ start_eps_conversion /\ UNCHANGED <<padVars, scaleVars, progVars>>
    \/ Deliver /\ UNCHANGED <<padVars, scaleVars, progVars>>
    \/ \E reply \in {"Yes", "No"} :
          AnswerPrompt(reply) /\ UNCHANGED <<padVars, scaleVars, progVars>>
    \/ \E t \in 1..Len(threads) :
          ThreadRun(t) /\ UNCHANGED <<padVars, scaleVars, progVars>>

Spec == Init /\ [][Next]_vars

(***************************************************************************)
(* The padding step of convert_to_eps on one file (SpecPad).               *)
(***************************************************************************)
MIN_SIZE   == 524288      \* 0.5 * 1024 * 1024
MAX_SIZE   == 83886080    \* 80 * 1024 * 1024
\* Mutant of PaddingLen: the comment block without its two line breaks.
PaddingLenNoNewlines == 48 + 1000

PaddingLen == 1050        \* len(padding.encode()): 49 + 1000 + 1 bytes

\* Sizes the file may have when the editor returns: around the sizes where
\* the target changes its form, and one whose padding to MIN_SIZE is a whole
\* number of blocks.
BoundarySizes ==
    {0, MIN_SIZE % PaddingLen, MIN_SIZE \div 2, MIN_SIZE, MAX_SIZE \div 2,
     MAX_SIZE, MAX_SIZE + MIN_SIZE}

StartSizes ==
    {s \in {b + d : b \in BoundarySizes, d \in (-MaxDelta)..MaxDelta} : s >= 0}

\* Mutants of TargetSize: the size is not doubled; the cap is left out.
TargetSizeNotDoubled(size) == Max2(MIN_SIZE, Min2(size, MAX_SIZE))
TargetSizeUncapped(size) == Max2(MIN_SIZE, size * 2)

\* target_size = max(MIN_SIZE, min(original_size * 2, MAX_SIZE))
TargetSize(size) == Max2(MIN_SIZE, Min2(size * 2, MAX_SIZE))

\* Mutant of OpenAppend: a mode that needs the file to exist ('r+b').
OpenExisting(file) == IF file = "missing" THEN "error" ELSE file

\* open(eps_file, 'ab'): append mode creates the file when it is missing.
OpenAppend(file) == IF file = "missing" THEN "created" ELSE file

\* with open(eps_file, 'ab'): f.tell() is the size of the file; the target
\* and the padding size are computed and the block is built if it is needed.
PadOpen ==
    /\ pad_pc = "open"
    /\ IF OpenAppend(eps_file) = "error"
       THEN /\ pad_pc' = "raised"
            /\ UNCHANGED <<fsize, original_size, target_size, eps_file>>
       ELSE /\ eps_file' = OpenAppend(eps_file)
            /\ original_size' = fsize
            /\ target_size' = TargetSize(fsize)
            /\ pad_pc' = IF TargetSize(fsize) - fsize > 0 THEN "loop" ELSE "closed"
            /\ UNCHANGED fsize

\* while f.tell() < target_size: f.write(padding.encode())
PadWrite ==
    /\ pad_pc = "loop"
    /\ fsize < target_size
    /\ fsize' = fsize + PaddingLen
    /\ UNCHANGED <<pad_pc, original_size, target_size, eps_file>>

\* the loop ends and the file is closed
PadClose ==
    /\ pad_pc = "loop"
    /\ ~(fsize < target_size)
    /\ pad_pc' = "closed"
    /\ UNCHANGED <<fsize, original_size, target_size, eps_file>>

GuiIdle == GuiInit

InitPad ==
    /\ GuiIdle /\ ScaleIdle /\ ProgIdle
    /\ pad_pc = "open"
    /\ \/ eps_file = "produced" /\ fsize \in StartSizes
       \/ eps_file = "missing" /\ fsize = 0
    /\ original_size = 0
    /\ target_size = 0

NextPad ==
    \/ PadOpen /\ UNCHANGED <<guiVars, scaleVars, progVars>>
    \/ PadWrite /\ UNCHANGED <<guiVars, scaleVars, progVars>>
    \/ PadClose /\ UNCHANGED <<guiVars, scaleVars, progVars>>

SpecPad == InitPad /\ [][NextPad]_vars

(***************************************************************************)
(* The scale factor of convert_to_jpg on one file (SpecScale).             *)
(***************************************************************************)
ScaleTarget == 8000

\* Declared dimensions as get_svg_dimensions returns them.
Dims == (0..MaxDim) \cup {100, 3999, 4000, 4001, 7999, 8000, 8001, 16000}

\* Mutants of ScaleFactor: the quotient truncated; the smaller quotient.
ScaleFactorTruncated(w, h) ==
    FloatTrunc(FloatMax(FloatDiv(ScaleTarget, w), FloatDiv(ScaleTarget, h)))
ScaleFactorSmaller(w, h) ==
    LET a == FloatDiv(ScaleTarget, w)
        b == FloatDiv(ScaleTarget, h)
    IN  FloatCeil(IF FloatLess(a, b) THEN a ELSE b)

\* max(8000/width, 8000/height), then math.ceil, then + 0.0
ScaleFactor(w, h) ==
    FloatCeil(FloatMax(FloatDiv(ScaleTarget, w), FloatDiv(ScaleTarget, h)))

\* Lines 50-53 inside the try: a zero dimension raises ZeroDivisionError,
\* which the except clause catches.
ComputeScale ==
    /\ jpg_pc = "start"
    /\ IF width = 0 \/ height = 0
       THEN jpg_pc' = "failed" /\ UNCHANGED scale_factor
       ELSE jpg_pc' = "scaled" /\ scale_factor' = ScaleFactor(width, height)
    /\ UNCHANGED <<width, height>>

InitScale ==
    /\ GuiIdle /\ PadIdle /\ ProgIdle
    /\ jpg_pc = "start"
    /\ width \in Dims
    /\ height \in Dims
    /\ scale_factor = 0

NextScale == ComputeScale /\ UNCHANGED <<guiVars, padVars, progVars>>

SpecScale == InitScale /\ [][NextScale]_vars

(***************************************************************************)
(* The progress value of ConversionThread.run (SpecProgress).              *)
(***************************************************************************)
\* self.progress_update.emit(int(i / len(self.svg_files) * 100))
EmitProgress ==
    /\ prog_pc = "start"
    /\ prog_value' = Progress(prog_i, prog_total)
    /\ prog_pc' = "emitted"
    /\ UNCHANGED <<prog_i, prog_total>>

InitProgress ==
    /\ GuiIdle /\ PadIdle /\ ScaleIdle
    /\ prog_pc = "start"
    /\ prog_total \in 1..MaxTotal
    /\ prog_i \in 1..prog_total
    /\ prog_value = 0

NextProgress == EmitProgress /\ UNCHANGED <<guiVars, padVars, scaleVars>>

SpecProgress == InitProgress /\ [][NextProgress]_vars

(***************************************************************************)
(* The claims.                                                             *)
(***************************************************************************)
Clamp(x, lo, hi) == IF x < lo THEN lo ELSE IF x > hi THEN hi ELSE x
Abs(x) == IF x < 0 THEN -x ELSE x
Running == {t \in 1..Len(threads) : threads[t].pc = "running"}
ProgressValues(th) ==
    [k \in 1..Cardinality({j \in 1..Len(th.emitted) : th.emitted[j].kind = "progress"})
        |-> th.emitted[k].value]
Completions(th) == {j \in 1..Len(th.emitted) : th.emitted[j].kind = "complete"}

\* C1: when the padding step has finished on a file that started at a size
\* S <= MAX_SIZE, the file is at least clamp(2*S, MIN_SIZE, MAX_SIZE) bytes
\* long and at least S bytes long; the size never falls below S on the way.
C1_PaddingPostcondition ==
    /\ (pad_pc = "closed" /\ original_size <= MAX_SIZE) =>
          /\ fsize >= Clamp(2 * original_size, MIN_SIZE, MAX_SIZE)
          /\ fsize >= original_size
    /\ (pad_pc # "open" /\ original_size <= MAX_SIZE) => fsize >= original_size

C1_Witness ==
    pad_pc = "closed" /\ original_size = MIN_SIZE /\ fsize > original_size

\* C9: a file that starts at a size S >= MAX_SIZE is never written to: once
\* it has been opened its size stays S and the step is over.
C9_OversizedUnchanged ==
    (pad_pc # "open" /\ original_size >= MAX_SIZE) =>
        (fsize = original_size /\ pad_pc = "closed")

C9_Witness ==
    pad_pc = "closed" /\ original_size > MAX_SIZE /\ fsize = original_size

\* C2 as stated: the scale factor is the smallest integer k >= 1 at which
\* the larger of the two dimensions reaches 8000.
C2_SmallestForLargerDimension ==
    jpg_pc = "scaled" =>
        LET big == Max2(width, height)
        IN  /\ scale_factor >= 1
            /\ scale_factor * big >= ScaleTarget
            /\ (scale_factor > 1 => (scale_factor - 1) * big < ScaleTarget)

\* C2 as amended: the scale factor is the smallest integer k >= 1 at which
\* the smaller of the two dimensions, and so both of them, reaches 8000;
\* for width 8000 and height 4000 it is 2.
C2_SmallestForSmallerDimension ==
    jpg_pc = "scaled" =>
        LET small == Min2(width, height)
        IN  /\ scale_factor >= 1
            /\ scale_factor * small >= ScaleTarget
            /\ (scale_factor > 1 => (scale_factor - 1) * small < ScaleTarget)
            /\ (width = 8000 /\ height = 4000 => scale_factor = 2)

C2_Witness ==
    jpg_pc = "scaled" /\ width = 8000 /\ height = 4000 /\ scale_factor = 2

\* C8: for positive width and height the scale factor is
\* ceil(max(8000/width, 8000/height)) in exact arithmetic, an integer >= 1;
\* for width 100 and height 4000 it is 80.
CeilQuotient(a, b) == (a + b - 1) \div b

C8_ScaleFormula ==
    jpg_pc = "scaled" =>
        /\ width > 0 /\ height > 0
        /\ scale_factor = Max2(CeilQuotient(ScaleTarget, width),
                               CeilQuotient(ScaleTarget, height))
        /\ scale_factor >= 1
        /\ (width = 100 /\ height = 4000 => scale_factor = 80)

C8_Witness ==
    jpg_pc = "scaled" /\ width = 100 /\ height = 4000 /\ scale_factor = 80

\* C3 as stated: the progress value after the i-th of total files is the
\* integer nearest to 100 * i / total.
C3_ProgressIsNearest ==
    prog_pc = "emitted" =>
        2 * Abs(prog_total * prog_value - 100 * prog_i) <= prog_total

\* C3 as amended: the progress value is the product truncated: it is
\* floor(100 * i / total) when 100 * i / total is not an integer, that
\* integer or one less when it is, and 100 for i = total.
C3_ProgressIsTruncated ==
    prog_pc = "emitted" =>
        LET q == (100 * prog_i) \div prog_total
            r == (100 * prog_i) % prog_total
        IN  /\ r # 0 => prog_value = q
            /\ r = 0 => prog_value \in {q - 1, q}
            /\ prog_i = prog_total => prog_value = 100

\* A batch size at which truncation and rounding differ.
C3_Witness ==
    /\ prog_pc = "emitted"
    /\ 2 * ((100 * prog_i) % prog_total) > prog_total
    /\ prog_value = (100 * prog_i) \div prog_total

NonDecreasing(seq) == \A j \in 1..(Len(seq) - 1) : seq[j] <= seq[j + 1]

\* C4: a thread none of whose calls raised emits one progress signal per
\* file gone through, in list order and with non-decreasing values, and the
\* completion signal only after the last file of the list it was started
\* with; when it is done it has emitted exactly as many progress signals as
\* that list has files, the last of them 100, followed by exactly one
\* completion signal (25, 50, 75, 100 for four files).
C4_SignalSequence ==
    \A t \in 1..Len(threads) :
        LET th == threads[t]
            pv == ProgressValues(th)
        IN  th.pc # "aborted" =>
              /\ Len(pv) = th.i
              /\ th.attempted = SubSeq(svg_files, 1, th.i)
              /\ \A j \in 1..th.i : th.emitted[j].kind = "progress"
              /\ NonDecreasing(pv)
              /\ Completions(th) \subseteq {th.n0 + 1}
              /\ th.pc = "running" => Completions(th) = {}
              /\ th.pc = "done" =>
                    /\ Len(th.emitted) = th.n0 + 1
                    /\ Len(pv) = th.n0
                    /\ pv[th.n0] = 100
                    /\ Completions(th) = {th.n0 + 1}
                    /\ (th.n0 = 4 => pv = <<25, 50, 75, 100>>)

C4_Witness ==
    \E t \in 1..Len(threads) :
        /\ threads[t].pc = "done"
        /\ threads[t].n0 = 4
        /\ ProgressValues(threads[t]) = <<25, 50, 75, 100>>
        /\ threads[t].emitted[5].kind = "complete"

\* C5: a raster thread is never stopped by a failed conversion: it is never
\* aborted, while it runs it can take its next step, and when it is done
\* every file of the list was attempted in order, the last progress value
\* is 100 and the completion signal was emitted exactly once.
C5_RasterFailuresContinue ==
    \A t \in 1..Len(threads) :
        LET th == threads[t]
            pv == ProgressValues(th)
        IN  th.fn = "jpg" =>
              /\ th.pc \in {"running", "done"}
              /\ th.failed \subseteq 1..th.i
              /\ th.attempted = SubSeq(svg_files, 1, th.i)
              /\ th.pc = "running" => ENABLED ThreadRun(t)
              /\ th.pc = "done" =>
                    /\ th.attempted = SubSeq(svg_files, 1, th.n0)
                    /\ Len(th.attempted) = th.n0
                    /\ pv[Len(pv)] = 100
                    /\ Cardinality(Completions(th)) = 1

\* File 2 of 4 failed and the batch went on to its end.
C5_Witness ==
    \E t \in 1..Len(threads) :
        /\ threads[t].fn = "jpg"
        /\ threads[t].pc = "done"
        /\ threads[t].n0 = 4
        /\ threads[t].failed = {2}

\* C6: at most one thread is running, and while some thread's completion
\* signal has not been delivered both buttons are disabled.
C6_OneBatchAtATime ==
    /\ Cardinality(Running) <= 1
    /\ (\E t \in 1..Len(threads) : ~threads[t].handled) =>
          (~select_enabled /\ ~convert_enabled)

\* A second batch runs after the first has completed.
C6_Witness ==
    /\ Len(threads) >= 2
    /\ threads[1].handled
    /\ threads[2].pc = "running"
    /\ threads[2].i >= 1

\* C7: in a PostScript batch a call whose subprocess raises never returns:
\* the thread is aborted at that file k, with the files 1..k attempted,
\* k - 1 progress signals and no completion signal emitted, and it stays so.
C7_PostScriptAbort ==
    \A t \in 1..Len(threads) :
        LET th == threads[t]
        IN  th.fn = "eps" =>
              /\ th.failed = {}
              /\ th.pc = "aborted" =>
                    /\ th.raised_at >= 1
                    /\ th.i = th.raised_at - 1
                    /\ th.attempted = SubSeq(svg_files, 1, th.raised_at)
                    /\ Len(th.emitted) = th.raised_at - 1
                    /\ Completions(th) = {}
                    /\ ~th.handled
                    /\ \A m \in 1..Len(queue) :
                          queue[m].thread = t => queue[m].kind = "progress"

\* The subprocess raised on file 2 of a longer list.
C7_Witness ==
    \E t \in 1..Len(threads) :
        /\ threads[t].fn = "eps"
        /\ threads[t].pc = "aborted"
        /\ threads[t].raised_at = 2
        /\ Len(svg_files) > 2
        /\ queue = <<>>

\* C10 as stated: from the start of a stage until the first progress signal
\* of that stage is delivered, the progress bar shows 0.
C10_ProgressResetAtStageStart ==
    \A t \in 1..Len(threads) :
        (t = Len(threads) /\ threads[t].shown = 0 /\ ~threads[t].handled) =>
            progress_bar = 0

\* C11 as stated: when the editor has produced no output file, the padding
\* step creates none and convert_to_eps does not come to its return.
C11_MissingFileErrors ==
    eps_file # "produced" => (eps_file = "missing" /\ pad_pc # "closed")

\* C11 as amended: when the editor has produced no output file, opening in
\* append mode creates an empty one, the padding step never errors, and
\* when it has finished the file holds at least MIN_SIZE bytes of padding.
C11_MissingFileCreated ==
    /\ pad_pc # "raised"
    /\ (pad_pc # "open" /\ eps_file # "produced") =>
          /\ eps_file = "created"
          /\ original_size = 0
          /\ pad_pc = "closed" => fsize >= MIN_SIZE

C11_Witness ==
    eps_file = "created" /\ pad_pc = "closed" /\ fsize >= MIN_SIZE

\* C12 as stated: for a start size S <= MAX_SIZE the final size lies in
\* MIN_SIZE..MAX_SIZE.
C12_FinalSizeInWindow ==
    (pad_pc = "closed" /\ original_size <= MAX_SIZE) =>
        (MIN_SIZE <= fsize /\ fsize <= MAX_SIZE)

\* C12 as amended: for a start size S <= MAX_SIZE the final size is at least
\* MIN_SIZE and exceeds MAX_SIZE by less than one padding block of 1050
\* bytes; it is at most MAX_SIZE when nothing was appended.
C12_FinalSizeNearWindow ==
    (pad_pc = "closed" /\ original_size <= MAX_SIZE) =>
        /\ MIN_SIZE <= fsize
        /\ fsize < MAX_SIZE + 1050
        /\ fsize = original_size => fsize <= MAX_SIZE

\* A final size above MAX_SIZE.
C12_Witness ==
    pad_pc = "closed" /\ original_size <= MAX_SIZE /\ fsize > MAX_SIZE

\* C14: when the target T exceeds the start size S, the bytes appended are
\* always a multiple of 1050 and the size stays below T + 1050; while the
\* loop is on one of its two steps can be taken; when the step has finished
\* at least one block was appended and T <= F < T + 1050.
C14_BoundedOvershoot ==
    (pad_pc \in {"loop", "closed"} /\ target_size > original_size) =>
        /\ (fsize - original_size) % 1050 = 0
        /\ fsize < target_size + 1050
        /\ target_size = Clamp(2 * original_size, MIN_SIZE, MAX_SIZE)
        /\ pad_pc = "loop" => ENABLED NextPad
        /\ pad_pc = "closed" =>
              /\ fsize >= target_size
              /\ fsize - original_size >= 1050

\* The padding ends exactly on the target, and it ends above it.
C14_Witness ==
    /\ pad_pc = "closed"
    /\ target_size > original_size
    /\ fsize > target_size
    /\ fsize - original_size > 1050

\* C13: a raster thread is always the thread created right after a
\* PostScript thread that is done and whose completion signal was delivered,
\* and it was started on the list that thread ran over; while the question
\* is open no thread runs and the list is the one the PostScript thread
\* that has just completed ran over.
C13_TwoStageOrdering ==
    /\ \A t \in 1..Len(threads) :
          threads[t].fn = "jpg" =>
              /\ t > 1
              /\ threads[t - 1].fn = "eps"
              /\ threads[t - 1].pc = "done"
              /\ threads[t - 1].handled
              /\ threads[t].n0 = threads[t - 1].n0
              /\ threads[t - 1].attempted = SubSeq(svg_files, 1, threads[t].n0)
    /\ prompt =>
          /\ threads # <<>>
          /\ threads[Len(threads)].fn = "eps"
          /\ threads[Len(threads)].handled
          /\ threads[Len(threads)].attempted = svg_files
          /\ Running = {}

\* A raster batch at work on the two files of the PostScript batch before it.
C13_Witness ==
    /\ Len(threads) = 2
    /\ threads[2].fn = "jpg"
    /\ threads[2].i = 1
    /\ threads[1].attempted = <<"a", "b">>
    /\ svg_files = <<"a", "b">>

\* C15: a click on Convert to EPS while the list is empty changes the
\* status text and nothing else: no thread, no signal, both buttons and the
\* progress bar as they were.
C15_EmptySelectionNoOp ==
    [][(svg_files = <<>> /\ start_eps_conversion) =>
          /\ status_label' = "No files selected"
          /\ UNCHANGED <<svg_files, select_enabled, convert_enabled,
                         progress_bar, prompt, threads, queue>>]_vars

\* The click has happened on an empty list.
C15_Witness ==
    /\ status_label = "No files selected"
    /\ svg_files = <<>>
    /\ threads = <<>>
    /\ queue = <<>>
    /\ select_enabled /\ convert_enabled
    /\ progress_bar = -1

====
